---- MODULE Spec2Model ----
(***************************************************************************)
(* Maze-Runner: treasure hollows (BetterBST-backed SpookyHollow, MaxHeap-   *)
(* backed MysticalHollow), the depth-first path search of Maze and the      *)
(* treasure walk along a path.                                              *)
(*                                                                          *)
(* data_structures.bst, data_structures.heap, algorithms.mergesort and      *)
(* treasure are imported by the sources but are not part of them; they are  *)
(* modelled from the specification (sections 2, 3, 4.1, 4.2, 7).            *)
(***************************************************************************)
EXTENDS Integers, Sequences, FiniteSets

\* ---------------------------------------------------------------- bounds
MaxTreasures == 3      \* longest list gen_treasures hands to a hollow
MaxValue == 1          \* treasure values are 0..MaxValue
MaxWeight == 2         \* treasure weights are 1..MaxWeight
MaxCapacity == 2       \* backpack capacities are 0..MaxCapacity
MaxCells == 6          \* the mazes searched have rows * cols <= MaxCells
MaxSearches == 2       \* find_way_out calls on one Maze object
WalkCols == 4          \* columns of the one-row mazes walked for treasures
MaxWalkTreasures == 2  \* longest list gen_treasures yields in a walked maze
MaxPathLen == 3        \* longest path handed to take_treasures
MaxWalks == 1          \* take_treasures calls on one Maze object
MaxKeys == 7           \* treasures of pairwise distinct ratio given to one hollow

VARIABLES
    generated,          \* hollow id -> the list gen_treasures() gave the hollow
    hollows,            \* hollow id -> Hollow object (kind, treasures)
    op,                 \* name of the operation that ran last
    target,             \* hollow id the last get_optimal_treasure ran on
    capacity,           \* backpack_capacity of the last call
    optimal_treasure,   \* value returned by the last get_optimal_treasure
    fault,              \* TRUE once an operation raised
    rows, cols,         \* Maze.rows, Maze.cols
    grid,               \* Maze.grid: position -> MazeCell
    start_position,     \* Maze.start_position
    end_positions,      \* Maze.end_positions, in the order they were read
    path,               \* the list find_way_out handed to find_path_aux
    way_out,            \* value returned by the last find_way_out
    searches,           \* find_way_out calls made on this Maze
    expanded,           \* history: the cells the last find_way_out marked
                        \* visited and appended to the path, in that order
    walked,             \* the path handed to the last take_treasures
    treasures_taken,    \* value returned by the last take_treasures
    walks               \* take_treasures calls made on this Maze

hollowVars == <<generated, hollows, target, capacity, optimal_treasure>>
mazeVars == <<rows, cols, grid, start_position, end_positions, path, way_out, searches,
              expanded>>
walkVars == <<walked, treasures_taken, walks>>
vars == <<hollowVars, op, fault, mazeVars, walkVars>>

\* ------------------------------------------------------------- treasures
\* Treasure: a record {value, weight}; id is the object's identity.
Treasure(i, v, w) == [id |-> i, value |-> v, weight |-> w]

\* Python's None where a Treasure is expected.
None == [id |-> 0, value |-> 0, weight |-> 0]

\* gen_treasures(): every non-empty list of at most MaxTreasures treasures.
TreasureLists ==
    UNION { { [i \in 1..n |-> Treasure(i, vw[i][1], vw[i][2])] :
                vw \in [1..n -> (0..MaxValue) \X (1..MaxWeight)] } :
            n \in 1..MaxTreasures }

\* Keys are value/weight quotients, kept as exact fractions (den > 0).
Key(n, d) == [num |-> n, den |-> d]
KeyLT(a, b) == a.num * b.den < b.num * a.den
KeyLE(a, b) == a.num * b.den <= b.num * a.den

\* Number of occurrences of x in the sequence s.
Count(s, x) == Cardinality({i \in 1..Len(s) : s[i] = x})

\* The elements of the sequence s.
Items(s) == {s[i] : i \in 1..Len(s)}

\* The treasures of a sequence of (key, treasure) entries.
ItemsOf(s) == [i \in 1..Len(s) |-> s[i].item]

\* v1/w1 <= v2/w2 for two treasures.
RatioLE(t1, t2) == t1.value * t2.weight <= t2.value * t1.weight

\* s1 and s2 hold the same multiset.
SameBag(s1, s2) ==
    /\ Len(s1) = Len(s2)
    /\ \A t \in Items(s1) \cup Items(s2) : Count(s1, t) = Count(s2, t)

\* s1 holds the multiset of s2 less one occurrence of t.
BagLess(s1, s2, t) ==
    /\ Len(s1) = Len(s2) - 1
    /\ Count(s1, t) = Count(s2, t) - 1
    /\ \A u \in (Items(s1) \cup Items(s2)) \ {t} : Count(s1, u) = Count(s2, u)

\* ------------------------------------------------- algorithms.mergesort
\* Stable merge of two sorted sequences of (key, item) entries.
RECURSIVE merge(_, _)
merge(l1, l2) ==
    IF l1 = <<>> THEN l2
    ELSE IF l2 = <<>> THEN l1
    ELSE IF KeyLE(Head(l1).key, Head(l2).key)
         THEN <<Head(l1)>> \o merge(Tail(l1), l2)
         ELSE <<Head(l2)>> \o merge(l1, Tail(l2))

RECURSIVE mergesort(_)
mergesort(l) ==
    IF Len(l) <= 1 THEN l
    ELSE LET break_index == (Len(l) + 1) \div 2
         IN  merge(mergesort(SubSeq(l, 1, break_index)),
                   mergesort(SubSeq(l, break_index + 1, Len(l))))

\* ---------------------------------------------- data_structures.bst
\* An absent child / empty tree.
NoNode == [nil |-> TRUE]
TreeNode(k, i, l, r) == [key |-> k, item |-> i, left |-> l, right |-> r]
IsNode(n) == "key" \in DOMAIN n

\* BinarySearchTree(): root None, length 0.
EmptyBST == [root |-> NoNode, length |-> 0, raised |-> FALSE]

\* insert_aux: smaller keys go left, the others right; a new leaf at the
\* first absent child.
RECURSIVE insert_aux(_, _, _)
insert_aux(current, key, item) ==
    IF ~IsNode(current) THEN TreeNode(key, item, NoNode, NoNode)
    ELSE IF KeyLT(key, current.key)
         THEN [current EXCEPT !.left = insert_aux(current.left, key, item)]
         ELSE [current EXCEPT !.right = insert_aux(current.right, key, item)]

\* bst[key] = item
setitem(bst, key, item) ==
    [bst EXCEPT !.root = insert_aux(bst.root, key, item),
                !.length = bst.length + 1]

\* In-order traversal: the nodes in ascending key order.
RECURSIVE InOrder(_)
InOrder(current) ==
    IF ~IsNode(current) THEN <<>>
    ELSE InOrder(current.left)
         \o <<[key |-> current.key, item |-> current.item]>>
         \o InOrder(current.right)

\* The search of delete_aux / find reaches a node with this key.
RECURSIVE contains(_, _)
contains(current, key) ==
    IF ~IsNode(current) THEN FALSE
    ELSE IF KeyLT(key, current.key) THEN contains(current.left, key)
    ELSE IF KeyLT(current.key, key) THEN contains(current.right, key)
    ELSE TRUE

\* get_minimal: the leftmost node of a subtree.
RECURSIVE get_minimal(_)
get_minimal(current) ==
    IF IsNode(current.left) THEN get_minimal(current.left) ELSE current

\* delete_aux: remove the first node on the search path whose key equals
\* key; a node with two children takes over its successor's key and item.
RECURSIVE delete_aux(_, _)
delete_aux(current, key) ==
    IF ~IsNode(current) THEN current
    ELSE IF KeyLT(key, current.key)
         THEN [current EXCEPT !.left = delete_aux(current.left, key)]
    ELSE IF KeyLT(current.key, key)
         THEN [current EXCEPT !.right = delete_aux(current.right, key)]
    ELSE IF ~IsNode(current.left) THEN current.right
    ELSE IF ~IsNode(current.right) THEN current.left
    ELSE LET succ == get_minimal(current.right)
         IN  TreeNode(succ.key, succ.item, current.left,
                      delete_aux(current.right, succ.key))

\* del bst[key]: deleting an absent key raises.
delitem(bst, key) ==
    IF contains(bst.root, key)
    THEN [bst EXCEPT !.root = delete_aux(bst.root, key),
                     !.length = bst.length - 1]
    ELSE [bst EXCEPT !.raised = TRUE]

\* ------------------------------------------------------------ betterbst.py
\* build_tree_aux with the base case start >= end: one-element ranges are
\* dropped.
RECURSIVE build_tree_aux_BaseGE(_, _, _, _)
build_tree_aux_BaseGE(bst, sorted_elements, start, end) ==
    IF start >= end THEN bst
    ELSE LET mid == (start + end) \div 2
             e == sorted_elements[mid + 1]
             inserted == [bst EXCEPT !.root = insert_aux(bst.root, e.key, e.item),
                                     !.length = bst.length + 1]
             leftDone == build_tree_aux_BaseGE(inserted, sorted_elements, start, mid - 1)
         IN  build_tree_aux_BaseGE(leftDone, sorted_elements, mid + 1, end)

\* build_tree_aux(sorted_elements, start, end), indices from 0 as in the code.
RECURSIVE build_tree_aux(_, _, _, _)
build_tree_aux(bst, sorted_elements, start, end) ==
    IF start > end THEN bst
    ELSE LET mid == (start + end) \div 2
             e == sorted_elements[mid + 1]
             inserted == setitem(bst, e.key, e.item)
             leftDone == build_tree_aux(inserted, sorted_elements, start, mid - 1)
         IN  build_tree_aux(leftDone, sorted_elements, mid + 1, end)

sort_elements(elements) == mergesort(elements)

\* The elements inserted one after the other in sorted order, no midpoint.
RECURSIVE insert_from(_, _, _)
insert_from(bst, elements, i) ==
    IF i > Len(elements) THEN bst
    ELSE insert_from(setitem(bst, elements[i].key, elements[i].item), elements, i + 1)

build_balanced_tree_Sequential(bst, elements) == insert_from(bst, elements, 1)

build_balanced_tree(bst, elements) ==
    build_tree_aux(bst, elements, 0, Len(elements) - 1)

\* BetterBST(elements)
BetterBST(elements) == build_balanced_tree(EmptyBST, sort_elements(elements))

\* ---------------------------------------------- data_structures.heap
\* MaxHeap: the_array is dense, entry k's children are entries 2k and 2k+1.
Swap(a, i, j) == [a EXCEPT ![i] = a[j], ![j] = a[i]]

\* largest_child(k): the left child when it is the last entry or has the
\* larger key, else the right child.
largest_child(a, k) ==
    IF 2 * k = Len(a) \/ KeyLT(a[2 * k + 1].key, a[2 * k].key)
    THEN 2 * k
    ELSE 2 * k + 1

\* sink(k): move entry k down while a child has a larger key.
RECURSIVE sink(_, _)
sink(a, k) ==
    IF 2 * k > Len(a) THEN a
    ELSE LET max_child == largest_child(a, k)
         IN  IF KeyLE(a[max_child].key, a[k].key) THEN a
             ELSE sink(Swap(a, k, max_child), max_child)

\* rise(k): move entry k up while its parent has a smaller key.
RECURSIVE rise(_, _)
rise(a, k) ==
    IF k > 1 /\ KeyLT(a[k \div 2].key, a[k].key)
    THEN rise(Swap(a, k, k \div 2), k \div 2)
    ELSE a

RECURSIVE heapify_from(_, _)
heapify_from(a, i) == IF i < 1 THEN a ELSE heapify_from(sink(a, i), i - 1)

\* MaxHeap.heapify(points): bottom-up construction.
heapify(points) ==
    [the_array |-> heapify_from(points, Len(points) \div 2),
     length |-> Len(points), raised |-> FALSE]

\* heap.add(element)
heap_add(heap, element) ==
    [heap EXCEPT !.the_array = rise(Append(heap.the_array, element),
                                    Len(heap.the_array) + 1),
                 !.length = heap.length + 1]

\* heap.get_max(): <<heap after the extraction, extracted entry>>; extracting
\* from an empty heap raises.
heap_get_max(heap) ==
    IF heap.length = 0
    THEN [heap |-> [heap EXCEPT !.raised = TRUE], max |-> [key |-> Key(0, 1), item |-> None]]
    ELSE LET a == heap.the_array
             n == Len(a)
             moved == IF n > 1
                      THEN sink([i \in 1..(n - 1) |-> IF i = 1 THEN a[n] ELSE a[i]], 1)
                      ELSE <<>>
         IN  [heap |-> [heap EXCEPT !.the_array = moved, !.length = heap.length - 1],
              max |-> a[1]]

\* --------------------------------------------------------------- hollows.py
\* Hollow.__len__
HollowLen(h) == h.treasures.length

\* The (key, treasure) entries a hollow holds, in its structure's order.
Contents(h) ==
    IF h.kind = "spooky" THEN InOrder(h.treasures.root) ELSE h.treasures.the_array

\* SpookyHollow.restructure_hollow keyed by -value, the weight left out.
SpookyRestructure_ValueKey(treasures) ==
    BetterBST([i \in 1..Len(treasures) |->
                 [key |-> Key(-treasures[i].value, 1), item |-> treasures[i]]])

\* SpookyHollow.restructure_hollow keyed by value / weight, the sign dropped.
SpookyRestructure_PositiveKey(treasures) ==
    BetterBST([i \in 1..Len(treasures) |->
                 [key |-> Key(treasures[i].value, treasures[i].weight),
                  item |-> treasures[i]]])

\* SpookyHollow.restructure_hollow: key = -value / weight.
SpookyRestructure(treasures) ==
    BetterBST([i \in 1..Len(treasures) |->
                 [key |-> Key(-treasures[i].value, treasures[i].weight),
                  item |-> treasures[i]]])

SpookyHollow(treasures) ==
    [kind |-> "spooky", treasures |-> SpookyRestructure(treasures)]

\* MysticalHollow.restructure_hollow that stores the (key, treasure) tuples
\* as the heap's array without heapifying them.
MysticalRestructure_NoHeapify(treasures) ==
    [the_array |-> [i \in 1..Len(treasures) |->
                      [key |-> Key(treasures[i].value, treasures[i].weight),
                       item |-> treasures[i]]],
     length |-> Len(treasures), raised |-> FALSE]

\* MysticalHollow.restructure_hollow: key = value / weight.
MysticalRestructure(treasures) ==
    heapify([i \in 1..Len(treasures) |->
               [key |-> Key(treasures[i].value, treasures[i].weight),
                item |-> treasures[i]]])

MysticalHollow(treasures) ==
    [kind |-> "mystical", treasures |-> MysticalRestructure(treasures)]

\* The for loop without its break: the last fitting node is kept.
SpookyWalk_NoBreak(nodes, backpack_capacity) ==
    LET fits == {i \in 1..Len(nodes) : nodes[i].item.weight <= backpack_capacity}
    IN  IF fits = {} THEN 0 ELSE CHOOSE i \in fits : \A j \in fits : i >= j

\* The for loop of SpookyHollow.get_optimal_treasure: the first node of the
\* in-order walk whose treasure fits, 0 when the walk ends without one.
SpookyWalk(nodes, backpack_capacity) ==
    LET fits == {i \in 1..Len(nodes) : nodes[i].item.weight <= backpack_capacity}
    IN  IF fits = {} THEN 0 ELSE CHOOSE i \in fits : \A j \in fits : i <= j

\* SpookyHollow.get_optimal_treasure returning the treasure it found without
\* deleting it.
SpookyGetOptimal_NoDelete(bst, backpack_capacity) ==
    LET nodes == InOrder(bst.root)
        found == SpookyWalk(nodes, backpack_capacity)
    IN  [treasures |-> bst,
         ret |-> IF found # 0 THEN nodes[found].item ELSE None]

\* SpookyHollow.get_optimal_treasure: [treasures, ret].
SpookyGetOptimal(bst, backpack_capacity) ==
    LET nodes == InOrder(bst.root)
        found == SpookyWalk(nodes, backpack_capacity)
    IN  IF found # 0
        THEN [treasures |-> delitem(bst, nodes[found].key), ret |-> nodes[found].item]
        ELSE [treasures |-> bst, ret |-> None]

\* The while loop of MysticalHollow.get_optimal_treasure.
RECURSIVE MysticalLoop(_, _, _)

\* The loop without its length check: get_max is called on whatever is left.
MysticalLoop_NoLengthCheck(heap, temp_storage, backpack_capacity) ==
    LET got == heap_get_max(heap)
    IN  IF got.heap.raised
        THEN [heap |-> got.heap, temp_storage |-> temp_storage, optimal |-> None]
        ELSE IF got.max.item.weight <= backpack_capacity
        THEN [heap |-> got.heap, temp_storage |-> temp_storage,
              optimal |-> got.max.item]
        ELSE MysticalLoop(got.heap, Append(temp_storage, got.max),
                          backpack_capacity)

MysticalLoop(heap, temp_storage, backpack_capacity) ==
    IF heap.length = 0
    THEN [heap |-> heap, temp_storage |-> temp_storage, optimal |-> None]
    ELSE LET got == heap_get_max(heap)
         IN  IF got.max.item.weight <= backpack_capacity
             THEN [heap |-> got.heap, temp_storage |-> temp_storage,
                   optimal |-> got.max.item]
             ELSE MysticalLoop(got.heap, Append(temp_storage, got.max),
                               backpack_capacity)

\* The for loop that adds the rejected entries back.
RECURSIVE AddBack(_, _)
AddBack(heap, temp_storage) ==
    IF temp_storage = <<>> THEN heap
    ELSE AddBack(heap_add(heap, Head(temp_storage)), Tail(temp_storage))

\* MysticalHollow.get_optimal_treasure without the loop over temp_storage.
MysticalGetOptimal_NoRestore(heap, backpack_capacity) ==
    LET looped == MysticalLoop(heap, <<>>, backpack_capacity)
    IN  [treasures |-> looped.heap, ret |-> looped.optimal]

\* MysticalHollow.get_optimal_treasure: [treasures, ret].
MysticalGetOptimal(heap, backpack_capacity) ==
    LET looped == MysticalLoop(heap, <<>>, backpack_capacity)
    IN  [treasures |-> AddBack(looped.heap, looped.temp_storage),
         ret |-> looped.optimal]

\* hollow.get_optimal_treasure(backpack_capacity), dispatched on the class.
GetOptimal(h, backpack_capacity) ==
    IF h.kind = "spooky"
    THEN SpookyGetOptimal(h.treasures, backpack_capacity)
    ELSE MysticalGetOptimal(h.treasures, backpack_capacity)

\* ------------------------------------------------------------------ maze.py
\* Tiles (config.py): the characters of a maze file.
WALL == "#"
EXIT == "E"
START_POSITION == "P"
EMPTY == " "
SPOOKY_HOLLOW == "S"
MYSTICAL_HOLLOW == "M"
HOLLOW == "hollow"      \* a MazeCell whose tile is a Hollow object
Tiles == {WALL, EXIT, START_POSITION, EMPTY, SPOOKY_HOLLOW, MYSTICAL_HOLLOW}

\* Position(row, col)
Position(r, c) == <<r, c>>
Positions(nr, nc) == (0..(nr - 1)) \X (0..(nc - 1))

\* The positions in the order load_maze_from_file reads them.
ScanOrder(nr, nc) ==
    [k \in 1..(nr * nc) |-> Position((k - 1) \div nc, (k - 1) % nc)]

\* MazeCell(tile, position, visited=False); hollow is the id of the Hollow
\* object the tile refers to, -1 when the tile is a string.
MazeCell(t, h) == [tile |-> t, hollow |-> h, visited |-> FALSE]

\* Value returned by take_treasures: None, or a list of treasures.
NoList == [none |-> TRUE, list |-> <<>>]
SomeList(l) == [none |-> FALSE, list |-> l]

\* Value returned by find_way_out when it returns None.
NoPath == [found |-> FALSE, cells |-> <<>>]
FoundPath(cells) == [found |-> TRUE, cells |-> cells]

\* validate_maze_file: one P, at least one E, at least one hollow, known
\* tiles only.
ValidMazeFile(file) ==
    /\ Cardinality({p \in DOMAIN file : file[p] = START_POSITION}) = 1
    /\ \E p \in DOMAIN file : file[p] = EXIT
    /\ \E p \in DOMAIN file : file[p] \in {SPOOKY_HOLLOW, MYSTICAL_HOLLOW}
    /\ \A p \in DOMAIN file : file[p] \in Tiles

\* The maze files of nr rows and nc columns that validate_maze_file accepts.
MazeFiles(nr, nc) ==
    {file \in [Positions(nr, nc) -> Tiles] : ValidMazeFile(file)}

\* The sub-sequence of the scan order holding the positions of one tile.
TilePositions(file, nr, nc, t) ==
    SelectSeq(ScanOrder(nr, nc), LAMBDA p : file[p] = t)

\* The hollow cells of a file, in reading order.
HollowCells(file, nr, nc) ==
    SelectSeq(ScanOrder(nr, nc),
              LAMBDA p : file[p] \in {SPOOKY_HOLLOW, MYSTICAL_HOLLOW})

\* Index of x in a sequence without repetitions.
IndexOf(seq, x) == CHOOSE k \in 1..Len(seq) : seq[k] = x

\* load_maze_from_file with a MysticalHollow() built for each M tile.
HollowObjects_PerCell(file, nr, nc) ==
    LET cells == HollowCells(file, nr, nc)
    IN  [at |-> [p \in Items(cells) |-> IndexOf(cells, p)],
         kind |-> [h \in 0..Len(cells) |->
                     IF h = 0 \/ file[cells[h]] = MYSTICAL_HOLLOW
                     THEN "mystical" ELSE "spooky"]]

\* The Hollow objects load_maze_from_file builds and where it puts them: the
\* one MysticalHollow built before the loop (id 0) goes to every M tile, each
\* S tile gets a SpookyHollow of its own (ids from 1, in reading order).
HollowObjects(file, nr, nc) ==
    LET spooky == TilePositions(file, nr, nc, SPOOKY_HOLLOW)
    IN  [at |-> [p \in Items(HollowCells(file, nr, nc)) |->
                   IF file[p] = MYSTICAL_HOLLOW THEN 0 ELSE IndexOf(spooky, p)],
         kind |-> [h \in 0..Len(spooky) |->
                     IF h = 0 THEN "mystical" ELSE "spooky"]]

\* _create_grid: empty cells, then the start, the walls, the hollows and the
\* exits, each overwriting what was there.
create_grid(nr, nc, start, walls, hollowAt, ends) ==
    [p \in Positions(nr, nc) |->
        IF p \in Items(ends) THEN MazeCell(EXIT, -1)
        ELSE IF p \in DOMAIN hollowAt THEN MazeCell(HOLLOW, hollowAt[p])
        ELSE IF p \in Items(walls) THEN MazeCell(WALL, -1)
        ELSE IF p = start THEN MazeCell(START_POSITION, -1)
        ELSE MazeCell(EMPTY, -1)]

\* The treasures of one hollow are objects of their own: gen_treasures() of
\* hollow h yields the values of list with identities h * MaxTreasures + i.
OwnTreasures(list, h) ==
    [i \in 1..Len(list) |-> Treasure(h * MaxTreasures + i, list[i].value, list[i].weight)]

\* The hollow a treasure was generated for.
Owner(t) == (t.id - 1) \div MaxTreasures

\* Hollow.__init__ for each object: gen_treasures, then restructure_hollow.
LoadedHollows(kinds, list) ==
    [h \in DOMAIN kinds |->
        IF kinds[h] = "mystical" THEN MysticalHollow(OwnTreasures(list, h))
                                 ELSE SpookyHollow(OwnTreasures(list, h))]

\* Maze.directions with the entries in the opposite order.
directions_Reversed == <<<<0, 1>>, <<0, -1>>, <<1, 0>>, <<-1, 0>>>>

\* Maze.directions, in dictionary order: UP, DOWN, LEFT, RIGHT.
directions == <<<<-1, 0>>, <<1, 0>>, <<0, -1>>, <<0, 1>>>>

\* is_valid_position without the wall test.
is_valid_position_NoWall(g, nr, nc, position) ==
    /\ 0 <= position[1] /\ position[1] < nr
    /\ 0 <= position[2] /\ position[2] < nc

\* is_valid_position
is_valid_position(g, nr, nc, position) ==
    /\ 0 <= position[1] /\ position[1] < nr
    /\ 0 <= position[2] /\ position[2] < nc
    /\ g[position].tile # WALL

\* get_available_positions putting each valid position in front of the list.
get_available_positions_Prepend(g, nr, nc, current_position) ==
    SelectSeq([d \in 1..Len(directions) |->
                  Position(current_position[1] + directions[Len(directions) + 1 - d][1],
                           current_position[2] + directions[Len(directions) + 1 - d][2])],
              LAMBDA new_position : is_valid_position(g, nr, nc, new_position))

\* get_available_positions
get_available_positions(g, nr, nc, current_position) ==
    SelectSeq([d \in 1..Len(directions) |->
                  Position(current_position[1] + directions[d][1],
                           current_position[2] + directions[d][2])],
              LAMBDA new_position : is_valid_position(g, nr, nc, new_position))

\* list.remove(x): drops the first element equal to x; raises when there is
\* none.
ListRemove(l, x) ==
    IF x \in Items(l)
    THEN LET k == CHOOSE i \in 1..Len(l) : l[i] = x /\ \A j \in 1..(i - 1) : l[j] # x
         IN  [list |-> SubSeq(l, 1, k - 1) \o SubSeq(l, k + 1, Len(l)), raised |-> FALSE]
    ELSE [list |-> l, raised |-> TRUE]

\* find_path_aux(current_position, path) on a maze m = [grid, rows, cols,
\* end_positions, expanded]: [result, path, grid, expanded, raised], result
\* NoPath for None; expanded lists the cells marked visited so far.
RECURSIVE find_path_aux(_, _, _)
RECURSIVE explore(_, _, _, _, _)

\* The for loop returning None as soon as the first neighbour has failed.
explore_FirstOnly(m, current_position, path_, available_positions, i) ==
    IF i > Len(available_positions)
    THEN LET removed == ListRemove(path_, current_position)
         IN  [result |-> NoPath, path |-> removed.list, grid |-> m.grid,
              expanded |-> m.expanded, raised |-> removed.raised]
    ELSE LET r == find_path_aux(m, available_positions[i], path_)
         IN  IF r.result.found \/ r.raised THEN r
             ELSE explore([m EXCEPT !.grid = r.grid, !.expanded = r.expanded],
                          current_position, r.path, available_positions,
                          Len(available_positions) + 1)

\* The for loop over available_positions, from index i on; current_position
\* is removed from the path when no neighbour leads to an exit.
explore(m, current_position, path_, available_positions, i) ==
    IF i > Len(available_positions)
    THEN LET removed == ListRemove(path_, current_position)
         IN  [result |-> NoPath, path |-> removed.list, grid |-> m.grid,
              expanded |-> m.expanded, raised |-> removed.raised]
    ELSE LET r == find_path_aux(m, available_positions[i], path_)
         IN  IF r.result.found \/ r.raised THEN r
             ELSE explore([m EXCEPT !.grid = r.grid, !.expanded = r.expanded],
                          current_position, r.path, available_positions, i + 1)

\* find_path_aux that returns None without removing current_position.
find_path_aux_NoBacktrack(m, current_position, path_) ==
    IF current_position \in Items(m.end_positions)
    THEN [result |-> FoundPath(Append(path_, current_position)),
          path |-> Append(path_, current_position), grid |-> m.grid,
          expanded |-> m.expanded, raised |-> FALSE]
    ELSE IF m.grid[current_position].visited
    THEN [result |-> NoPath, path |-> path_, grid |-> m.grid,
          expanded |-> m.expanded, raised |-> FALSE]
    ELSE LET marked == [m EXCEPT !.grid[current_position].visited = TRUE,
                                 !.expanded = Append(@, current_position)]
             r == explore(marked, current_position, Append(path_, current_position),
                          get_available_positions(marked.grid, m.rows, m.cols,
                                                  current_position), 1)
         IN  IF r.result.found THEN r
             ELSE [r EXCEPT !.path = Append(r.path, current_position)]

\* find_path_aux that marks and appends the cell before it looks for an exit.
find_path_aux_MarkFirst(m, current_position, path_) ==
    IF m.grid[current_position].visited
    THEN [result |-> NoPath, path |-> path_, grid |-> m.grid,
          expanded |-> m.expanded, raised |-> FALSE]
    ELSE LET marked == [m EXCEPT !.grid[current_position].visited = TRUE,
                                 !.expanded = Append(@, current_position)]
         IN  IF current_position \in Items(m.end_positions)
             THEN [result |-> FoundPath(Append(path_, current_position)),
                   path |-> Append(path_, current_position), grid |-> marked.grid,
                   expanded |-> marked.expanded, raised |-> FALSE]
             ELSE explore(marked, current_position, Append(path_, current_position),
                          get_available_positions(marked.grid, m.rows, m.cols,
                                                  current_position), 1)

find_path_aux(m, current_position, path_) ==
    IF current_position \in Items(m.end_positions)
    THEN [result |-> FoundPath(Append(path_, current_position)),
          path |-> Append(path_, current_position), grid |-> m.grid,
          expanded |-> m.expanded, raised |-> FALSE]
    ELSE IF m.grid[current_position].visited
    THEN [result |-> NoPath, path |-> path_, grid |-> m.grid,
          expanded |-> m.expanded, raised |-> FALSE]
    ELSE LET marked == [m EXCEPT !.grid[current_position].visited = TRUE,
                                 !.expanded = Append(@, current_position)]
         IN  explore(marked, current_position, Append(path_, current_position),
                     get_available_positions(marked.grid, m.rows, m.cols,
                                             current_position), 1)

\* The for loop of take_treasures from path cell i on: [hollows, taken,
\* raised].
RECURSIVE take_loop(_, _, _, _, _, _)

\* The loop with backpack_capacity left as it was after a treasure is taken.
take_loop_NoDecrement(g, store, path_, i, backpack_capacity, taken) ==
    IF i > Len(path_)
    THEN [hollows |-> store, taken |-> taken, raised |-> FALSE]
    ELSE LET cell == g[path_[i]]
         IN  IF cell.tile # HOLLOW
             THEN take_loop(g, store, path_, i + 1, backpack_capacity, taken)
             ELSE LET r == GetOptimal(store[cell.hollow], backpack_capacity)
                      after == [store EXCEPT ![cell.hollow].treasures = r.treasures]
                  IN  IF r.treasures.raised
                      THEN [hollows |-> after, taken |-> taken, raised |-> TRUE]
                      ELSE IF r.ret # None /\ r.ret.weight <= backpack_capacity
                      THEN take_loop(g, after, path_, i + 1, backpack_capacity,
                                     Append(taken, r.ret))
                      ELSE take_loop(g, after, path_, i + 1, backpack_capacity, taken)

take_loop(g, store, path_, i, backpack_capacity, taken) ==
    IF i > Len(path_)
    THEN [hollows |-> store, taken |-> taken, raised |-> FALSE]
    ELSE LET cell == g[path_[i]]
         IN  IF cell.tile # HOLLOW
             THEN take_loop(g, store, path_, i + 1, backpack_capacity, taken)
             ELSE LET r == GetOptimal(store[cell.hollow], backpack_capacity)
                      after == [store EXCEPT ![cell.hollow].treasures = r.treasures]
                  IN  IF r.treasures.raised
                      THEN [hollows |-> after, taken |-> taken, raised |-> TRUE]
                      ELSE IF r.ret # None /\ r.ret.weight <= backpack_capacity
                      THEN take_loop(g, after, path_, i + 1,
                                     backpack_capacity - r.ret.weight,
                                     Append(taken, r.ret))
                      ELSE take_loop(g, after, path_, i + 1, backpack_capacity, taken)

\* take_treasures that returns the list even when it is empty.
take_treasures_EmptyList(g, store, path_, backpack_capacity) ==
    LET r == take_loop(g, store, path_, 1, backpack_capacity, <<>>)
    IN  [hollows |-> r.hollows, ret |-> SomeList(r.taken), raised |-> r.raised]

\* take_treasures(path, backpack_capacity): [hollows, ret, raised].
take_treasures(g, store, path_, backpack_capacity) ==
    LET r == take_loop(g, store, path_, 1, backpack_capacity, <<>>)
    IN  [hollows |-> r.hollows,
         ret |-> IF r.taken # <<>> THEN SomeList(r.taken) ELSE NoList,
         raised |-> r.raised]

\* The Maze object as find_path_aux reads it.
Self ==
    [grid |-> grid, rows |-> rows, cols |-> cols, end_positions |-> end_positions,
     expanded |-> <<>>]

\* ------------------------------------------------ hollows driven directly
\* No call has been made and there is no maze.
NothingCalled ==
    /\ target = 0
    /\ capacity = 0
    /\ optimal_treasure = None
    /\ fault = FALSE
    /\ rows = 0 /\ cols = 0
    /\ grid = <<>>
    /\ start_position = <<0, 0>>
    /\ end_positions = <<>>
    /\ path = <<>>
    /\ way_out = NoPath
    /\ searches = 0
    /\ expanded = <<>>
    /\ walked = <<>>
    /\ treasures_taken = NoList
    /\ walks = 0

HollowKinds == {"mystical", "spooky"}

\* One hollow (id 0) of either class, constructed over a generated list.
InitHollows ==
    /\ \E treasures \in TreasureLists, k \in HollowKinds :
          /\ generated = [i \in {0} |-> treasures]
          /\ hollows = [i \in {0} |-> IF k = "mystical"
                                       THEN MysticalHollow(treasures)
                                       ELSE SpookyHollow(treasures)]
    /\ op = "init"
    /\ NothingCalled

\* A caller runs hollows[h].get_optimal_treasure(backpack_capacity).
CallGetOptimal(h, backpack_capacity) ==
    LET r == GetOptimal(hollows[h], backpack_capacity)
    IN  /\ hollows' = [hollows EXCEPT ![h].treasures = r.treasures]
        /\ UNCHANGED generated
        /\ op' = "get_optimal_treasure"
        /\ target' = h
        /\ capacity' = backpack_capacity
        /\ optimal_treasure' = r.ret
        /\ fault' = (fault \/ r.treasures.raised)
        /\ UNCHANGED <<mazeVars, walkVars>>

SpookyCall ==
    \E h \in DOMAIN hollows, c \in 0..MaxCapacity :
        hollows[h].kind = "spooky" /\ CallGetOptimal(h, c)

MysticalCall ==
    \E h \in DOMAIN hollows, c \in 0..MaxCapacity :
        hollows[h].kind = "mystical" /\ CallGetOptimal(h, c)

NextHollows == SpookyCall \/ MysticalCall

SpecHollows == InitHollows /\ [][NextHollows]_vars

\* ------------------------------- two hollows driven by the same capacities
\* No two treasures of a list have the same value/weight ratio.
DistinctRatios(treasures) ==
    \A i, j \in 1..Len(treasures) :
        i # j => ~(RatioLE(treasures[i], treasures[j]) /\ RatioLE(treasures[j], treasures[i]))

\* A MysticalHollow (id 0) and a SpookyHollow (id 1) holding the same
\* treasures, of pairwise distinct ratios.
InitPair ==
    /\ \E treasures \in TreasureLists :
          /\ DistinctRatios(treasures)
          /\ generated = [i \in 0..1 |-> treasures]
          /\ hollows = [i \in 0..1 |-> IF i = 0 THEN MysticalHollow(treasures)
                                                ELSE SpookyHollow(treasures)]
    /\ op = "init"
    /\ NothingCalled

\* The mystical hollow is asked first, with any capacity.
PairMysticalCall ==
    /\ op = "init" \/ target = 1
    /\ \E c \in 0..MaxCapacity : CallGetOptimal(0, c)

\* The spooky hollow is then asked with the same capacity.
PairSpookyCall ==
    /\ op = "get_optimal_treasure" /\ target = 0
    /\ CallGetOptimal(1, capacity)

NextPair == PairMysticalCall \/ PairSpookyCall

SpecPair == InitPair /\ [][NextPair]_vars

\* -------------------------------------------------- constructing a hollow
\* Hollow.__init__ after self.treasures = self.gen_treasures(): the hollow
\* (id 0) of either class still holds the generated list.
InitBuild ==
    /\ \E treasures \in TreasureLists, k \in HollowKinds :
          /\ generated = [i \in {0} |-> treasures]
          /\ hollows = [i \in {0} |-> [kind |-> k, treasures |-> treasures]]
    /\ op = "gen_treasures"
    /\ NothingCalled

\* Hollow.__init__ goes on to self.restructure_hollow().
Restructure(h, k) ==
    /\ op = "gen_treasures"
    /\ hollows[h].kind = k
    /\ hollows' = [hollows EXCEPT ![h] = IF k = "mystical"
                                         THEN MysticalHollow(generated[h])
                                         ELSE SpookyHollow(generated[h])]
    /\ op' = "restructure_hollow"
    /\ target' = h
    /\ UNCHANGED <<generated, capacity, optimal_treasure, fault, mazeVars, walkVars>>

SpookyRestructures == \E h \in DOMAIN hollows : Restructure(h, "spooky")

MysticalRestructures == \E h \in DOMAIN hollows : Restructure(h, "mystical")

NextBuild == SpookyRestructures \/ MysticalRestructures

SpecBuild == InitBuild /\ [][NextBuild]_vars

\* ------------------------------------ hollows over pairwise distinct ratios
\* gen_treasures() yielding treasures of pairwise distinct ratios: the
\* values of a non-empty subset of 1..MaxKeys at weight 1, in ascending or
\* in descending order.
DistinctRatioLists ==
    UNION { { [i \in 1..Cardinality(S) |->
                 Treasure(i, CHOOSE v \in S :
                                 Cardinality({u \in S : IF up THEN u < v ELSE u > v}) = i - 1,
                          1)] : up \in BOOLEAN } :
            S \in (SUBSET (1..MaxKeys)) \ {{}} }

InitTree ==
    /\ \E treasures \in DistinctRatioLists, k \in HollowKinds :
          /\ generated = [i \in {0} |-> treasures]
          /\ hollows = [i \in {0} |-> [kind |-> k, treasures |-> treasures]]
    /\ op = "gen_treasures"
    /\ NothingCalled

SpecTree == InitTree /\ [][NextBuild]_vars

\* ----------------------------------------------------- hollow properties
\* The step is a get_optimal_treasure call on hollow h.
CalledOn(h) == op' = "get_optimal_treasure" /\ target' = h

IsSpooky(h) == hollows[h].kind = "spooky"
IsMystical(h) == hollows[h].kind = "mystical"

\* Positions of the entries of hollow h that fit the capacity c.
Fitting(h, c) ==
    {i \in 1..Len(Contents(hollows[h])) : Contents(hollows[h])[i].item.weight <= c}

\* C1: on either hollow kind a call that returns a treasure makes len(hollow)
\* one smaller; a call that returns None leaves len(hollow) and the multiset
\* of treasures as they were, and the same call made again returns None and
\* changes nothing.
C1_SizeContract ==
    [][\A h \in DOMAIN hollows :
          CalledOn(h) =>
            IF optimal_treasure' # None
            THEN HollowLen(hollows'[h]) = HollowLen(hollows[h]) - 1
            ELSE /\ HollowLen(hollows'[h]) = HollowLen(hollows[h])
                 /\ SameBag(ItemsOf(Contents(hollows'[h])), ItemsOf(Contents(hollows[h])))
                 /\ GetOptimal(hollows'[h], capacity').ret = None
                 /\ SameBag(ItemsOf(Contents([hollows'[h] EXCEPT !.treasures =
                                GetOptimal(hollows'[h], capacity').treasures])),
                            ItemsOf(Contents(hollows'[h])))]_vars

\* A call returned a treasure and left others behind, on a hollow that
\* earlier saw a call fail.
C1_Witness ==
    /\ op = "get_optimal_treasure"
    /\ optimal_treasure # None
    /\ HollowLen(hollows[target]) >= 1
    /\ \E c \in 0..MaxCapacity : GetOptimal(hollows[target], c).ret = None

\* C2: after MysticalHollow.get_optimal_treasure the heap holds the (ratio,
\* treasure) entries it held before, less the entry of the returned treasure
\* (all of them when None is returned).
C2_RejectedRestored ==
    [][\A h \in DOMAIN hollows :
          (CalledOn(h) /\ IsMystical(h)) =>
            IF optimal_treasure' # None
            THEN \E i \in 1..Len(Contents(hollows[h])) :
                    /\ Contents(hollows[h])[i].item = optimal_treasure'
                    /\ BagLess(Contents(hollows'[h]), Contents(hollows[h]),
                               Contents(hollows[h])[i])
            ELSE SameBag(Contents(hollows'[h]), Contents(hollows[h]))]_vars

\* A mystical call returned a treasure although a treasure of larger ratio,
\* too heavy for the capacity, is still in the heap: it was extracted first
\* and put back.
C2_Witness ==
    /\ op = "get_optimal_treasure"
    /\ IsMystical(target)
    /\ optimal_treasure # None
    /\ \E i \in 1..Len(Contents(hollows[target])) :
          LET t == Contents(hollows[target])[i].item
          IN  t.weight > capacity /\ ~RatioLE(t, optimal_treasure)

\* C3: SpookyHollow.get_optimal_treasure removes from the tree the treasure
\* it returns and no other, also among treasures of equal ratio.
C3_DeletesReturned ==
    [][\A h \in DOMAIN hollows :
          (CalledOn(h) /\ IsSpooky(h) /\ optimal_treasure' # None) =>
            BagLess(ItemsOf(Contents(hollows'[h])), ItemsOf(Contents(hollows[h])),
                    optimal_treasure')]_vars

\* C4: a call returns a treasure exactly when some contained treasure fits the
\* capacity; the returned treasure was contained, fits, and no contained
\* fitting treasure has a larger value/weight ratio; an empty hollow gives
\* None.
C4_BestFitting ==
    [][\A h \in DOMAIN hollows :
          CalledOn(h) =>
            LET before == ItemsOf(Contents(hollows[h]))
                fits == Fitting(h, capacity')
            IN  /\ (optimal_treasure' # None) <=> (fits # {})
                /\ optimal_treasure' # None =>
                      /\ optimal_treasure' \in Items(before)
                      /\ optimal_treasure'.weight <= capacity'
                      /\ \A i \in fits : RatioLE(before[i], optimal_treasure')
                /\ before = <<>> => optimal_treasure' = None]_vars

\* A call returned a treasure while the hollow held another fitting treasure
\* of strictly smaller ratio and a treasure too heavy for the capacity.
C4_Witness ==
    /\ op = "get_optimal_treasure"
    /\ optimal_treasure # None
    /\ \E i, j \in 1..Len(Contents(hollows[target])) :
          LET t == Contents(hollows[target])[i].item
              u == Contents(hollows[target])[j].item
          IN  /\ t.weight <= capacity /\ ~RatioLE(optimal_treasure, t)
              /\ u.weight > capacity

\* C5: after SpookyHollow.restructure_hollow on a list of n treasures the tree
\* has length n, holds exactly the treasures of the list, and its in-order
\* traversal is in non-increasing value/weight ratio order.
C5_RestructureSorted ==
    \A h \in DOMAIN hollows :
        (op = "restructure_hollow" /\ target = h /\ IsSpooky(h)) =>
            LET walk == ItemsOf(InOrder(hollows[h].treasures.root))
            IN  /\ HollowLen(hollows[h]) = Len(generated[h])
                /\ SameBag(walk, generated[h])
                /\ \A i \in 1..(Len(walk) - 1) : RatioLE(walk[i + 1], walk[i])

\* A freshly restructured spooky hollow of three treasures, the second of
\* larger ratio than the first and the third of the same ratio as the first.
C5_Witness ==
    /\ op = "restructure_hollow"
    /\ \E h \in DOMAIN hollows :
          /\ IsSpooky(h)
          /\ Len(generated[h]) = 3
          /\ ~RatioLE(generated[h][2], generated[h][1])
          /\ RatioLE(generated[h][1], generated[h][3])
          /\ RatioLE(generated[h][3], generated[h][1])

\* ------------------------------------------------------ searching a maze
\* The list gen_treasures() yields while mazes are searched.
SearchTreasures == <<Treasure(1, 1, 1)>>

\* Maze.load_maze_from_file on a file of nr rows and nc columns.
LoadMaze(file, nr, nc, list) ==
    LET ends == TilePositions(file, nr, nc, EXIT)
        walls == TilePositions(file, nr, nc, WALL)
        start == CHOOSE p \in DOMAIN file : file[p] = START_POSITION
        objects == HollowObjects(file, nr, nc)
        hollowAt == objects.at
    IN  /\ hollows = LoadedHollows(objects.kind, list)
        /\ generated = [h \in DOMAIN objects.kind |-> OwnTreasures(list, h)]
        /\ rows = nr /\ cols = nc
        /\ start_position = start
        /\ end_positions = ends
        /\ grid = create_grid(nr, nc, start, walls, hollowAt, ends)
        /\ op = "init"
        /\ target = 0
        /\ capacity = 0
        /\ optimal_treasure = None
        /\ fault = FALSE
        /\ path = <<>>
        /\ way_out = NoPath
        /\ searches = 0
        /\ expanded = <<>>
        /\ walked = <<>>
        /\ treasures_taken = NoList
        /\ walks = 0

\* The shapes of the mazes searched.
MazeShapes == {s \in (1..MaxCells) \X (1..MaxCells) : s[1] * s[2] <= MaxCells}

\* Maze(Position(0, 0), [Position(2, 2)], [], [], 3, 3): the 3x3 grid with
\* no walls and no hollows, start top left, exit bottom right.
ExampleMaze ==
    /\ hollows = <<>>
    /\ generated = <<>>
    /\ rows = 3 /\ cols = 3
    /\ start_position = Position(0, 0)
    /\ end_positions = <<Position(2, 2)>>
    /\ grid = create_grid(3, 3, Position(0, 0), <<>>, <<>>, <<Position(2, 2)>>)
    /\ op = "init"
    /\ target = 0
    /\ capacity = 0
    /\ optimal_treasure = None
    /\ fault = FALSE
    /\ path = <<>>
    /\ way_out = NoPath
    /\ searches = 0
    /\ expanded = <<>>
    /\ walked = <<>>
    /\ treasures_taken = NoList
    /\ walks = 0

InitMaze ==
    \/ \E s \in MazeShapes : \E file \in MazeFiles(s[1], s[2]) :
          LoadMaze(file, s[1], s[2], SearchTreasures)
    \/ ExampleMaze

\* maze.find_way_out()
FindWayOut ==
    /\ searches < MaxSearches
    /\ LET r == find_path_aux(Self, start_position, <<>>)
       IN  /\ grid' = r.grid
           /\ path' = r.path
           /\ way_out' = r.result
           /\ expanded' = r.expanded
           /\ fault' = (fault \/ r.raised)
    /\ searches' = searches + 1
    /\ op' = "find_way_out"
    /\ UNCHANGED <<hollowVars, rows, cols, start_position, end_positions, walkVars>>

NextMaze == FindWayOut

SpecMaze == InitMaze /\ [][NextMaze]_vars

\* ------------------------------------------------------- search properties
\* p and q are one step up, down, left or right of each other.
Adjacent(p, q) ==
    \/ (p[1] = q[1] /\ (p[2] = q[2] + 1 \/ q[2] = p[2] + 1))
    \/ (p[2] = q[2] /\ (p[1] = q[1] + 1 \/ q[1] = p[1] + 1))

\* p is a cell of the grid that is not a wall.
Open(p) == p \in DOMAIN grid /\ grid[p].tile # WALL

IsExit(p) == \E i \in 1..Len(end_positions) : end_positions[i] = p

\* The cells reachable from the cells of S through open cells.
RECURSIVE ReachFrom(_)
ReachFrom(S) ==
    LET N == S \cup {q \in DOMAIN grid : Open(q) /\ \E p \in S : Adjacent(p, q)}
    IN  IF N = S THEN S ELSE ReachFrom(N)

ExitReachable == \E e \in ReachFrom({start_position}) : IsExit(e)

\* The last find_way_out was the first one on this Maze.
FreshSearchDone == op = "find_way_out" /\ searches = 1

\* C6: a path returned by find_way_out on a fresh maze starts at the start
\* position, ends at an exit with no exit before it, stays on cells of the
\* grid that are not walls, moves one step up, down, left or right at a time
\* and holds no position twice.
C6_PathWellFormed ==
    (FreshSearchDone /\ way_out.found) =>
        LET cells == way_out.cells
        IN  /\ Len(cells) >= 1
            /\ cells[1] = start_position
            /\ IsExit(cells[Len(cells)])
            /\ \A i \in 1..(Len(cells) - 1) : ~IsExit(cells[i])
            /\ \A i \in 1..Len(cells) : Open(cells[i])
            /\ \A i \in 1..(Len(cells) - 1) : Adjacent(cells[i], cells[i + 1])
            /\ \A i, j \in 1..Len(cells) : cells[i] = cells[j] => i = j

\* A path of at least four cells was returned after the search had entered
\* and backtracked out of a cell that is not on it, in a maze with a wall.
C6_Witness ==
    /\ FreshSearchDone /\ way_out.found
    /\ Len(way_out.cells) >= 4
    /\ \E p \in DOMAIN grid : grid[p].visited /\ p \notin Items(way_out.cells)
    /\ \E p \in DOMAIN grid : grid[p].tile = WALL

\* C7: when no exit is reachable from the start through open cells,
\* find_way_out on the fresh maze returns None, raises nothing, and the path
\* list is empty again.
C7_NoExitNoPath ==
    (FreshSearchDone /\ ~ExitReachable) =>
        /\ ~way_out.found
        /\ path = <<>>
        /\ ~fault

\* The search returned from a maze whose exits are all cut off, after
\* visiting the start and at least two more cells.
C7_Witness ==
    /\ FreshSearchDone /\ ~ExitReachable
    /\ Cardinality({p \in DOMAIN grid : grid[p].visited}) >= 3

\* An exit is a 4-neighbour of the start.
ExitNextToStart == \E e \in DOMAIN grid : IsExit(e) /\ Adjacent(start_position, e)

\* The neighbours of the start in the order up, down, left, right that are
\* open cells.
OpenNeighbours ==
    SelectSeq(<<<<start_position[1] - 1, start_position[2]>>,
                <<start_position[1] + 1, start_position[2]>>,
                <<start_position[1], start_position[2] - 1>>,
                <<start_position[1], start_position[2] + 1>>>>,
              LAMBDA q : Open(q))

\* C8 as stated: with an exit next to the start, find_way_out on the fresh
\* maze returns the two cells [start, exit].
C8_TwoCells ==
    (FreshSearchDone /\ ExitNextToStart) =>
        /\ way_out.found
        /\ Len(way_out.cells) = 2
        /\ way_out.cells[1] = start_position
        /\ IsExit(way_out.cells[2])

\* C8 amended: with an exit next to the start, find_way_out on the fresh maze
\* returns a path from the start to an exit; the path is the two cells
\* [start, exit] when the first open neighbour of the start in the order up,
\* down, left, right is that exit.
C8_AdjacentExit ==
    (FreshSearchDone /\ ExitNextToStart) =>
        /\ way_out.found
        /\ way_out.cells[1] = start_position
        /\ IsExit(way_out.cells[Len(way_out.cells)])
        /\ IsExit(OpenNeighbours[1]) => way_out.cells = <<start_position, OpenNeighbours[1]>>

\* The search returned [start, exit] for an exit that is the first open
\* neighbour of the start while a later neighbour is open and not an exit.
C8_Witness ==
    /\ FreshSearchDone /\ ExitNextToStart
    /\ IsExit(OpenNeighbours[1])
    /\ \E i \in 2..Len(OpenNeighbours) : ~IsExit(OpenNeighbours[i])
    /\ Len(way_out.cells) = 2

\* C9: two find_way_out calls in a row on one Maze return the same result.
C9_SecondRunSame ==
    [][(op = "find_way_out" /\ op' = "find_way_out") => way_out' = way_out]_vars

\* ------------------------------------------------ walking a maze's hollows
\* The lists gen_treasures() yields in a walked maze.
WalkTreasures == {l \in TreasureLists : Len(l) <= MaxWalkTreasures}

\* The paths handed to take_treasures: cells of the grid, none twice.
WalkPaths ==
    UNION { {q \in [1..n -> DOMAIN grid] : \A i, j \in 1..n : q[i] = q[j] => i = j} :
            n \in 1..MaxPathLen }

InitWalk ==
    \E file \in MazeFiles(1, WalkCols), list \in WalkTreasures :
        LoadMaze(file, 1, WalkCols, list)

\* maze.take_treasures(path, backpack_capacity)
TakeTreasures ==
    /\ walks < MaxWalks
    /\ \E path_ \in WalkPaths, backpack_capacity \in 0..MaxCapacity :
          LET r == take_treasures(grid, hollows, path_, backpack_capacity)
          IN  /\ hollows' = r.hollows
              /\ treasures_taken' = r.ret
              /\ fault' = (fault \/ r.raised)
              /\ walked' = path_
              /\ capacity' = backpack_capacity
    /\ walks' = walks + 1
    /\ op' = "take_treasures"
    /\ UNCHANGED <<generated, target, optimal_treasure, mazeVars>>

NextWalk == TakeTreasures

SpecWalk == InitWalk /\ [][NextWalk]_vars

\* -------------------------------------------------------- walk properties
\* The cells of the grid whose tile is a hollow of the given kind.
HollowCellsOfKind(k) ==
    {p \in DOMAIN grid : grid[p].tile = HOLLOW /\ hollows[grid[p].hollow].kind = k}

\* The treasures of a list that were generated for a mystical hollow.
FromMystical(taken) ==
    {i \in 1..Len(taken) : hollows[Owner(taken[i])].kind = "mystical"}

\* C10: in a loaded maze every mystical cell shows the one mystical
\* collection: after a walk each treasure taken from it is absent through
\* every mystical cell, whose size has dropped by the number taken, and no
\* such treasure is returned twice; every spooky cell has a collection no
\* other cell refers to, a spooky hollow off the path is left as it was, and
\* so is the mystical collection when no mystical cell is on the path.
C10_SharedMystical ==
    [][op' = "take_treasures" =>
        LET taken == treasures_taken'.list
            hollowCells == HollowCellsOfKind("mystical") \cup HollowCellsOfKind("spooky")
        IN  /\ \A m \in HollowCellsOfKind("mystical") :
                  /\ HollowLen(hollows'[grid[m].hollow])
                       = HollowLen(hollows[grid[m].hollow]) - Cardinality(FromMystical(taken))
                  /\ \A i \in FromMystical(taken) :
                        taken[i] \notin Items(ItemsOf(Contents(hollows'[grid[m].hollow])))
            /\ \A i, j \in FromMystical(taken) : taken[i] = taken[j] => i = j
            /\ \A s \in HollowCellsOfKind("spooky") :
                  /\ \A c \in hollowCells \ {s} : grid[c].hollow # grid[s].hollow
                  /\ s \notin Items(walked') =>
                        hollows'[grid[s].hollow] = hollows[grid[s].hollow]
            /\ (\A m \in HollowCellsOfKind("mystical") : m \notin Items(walked')) =>
                  hollows'[0] = hollows[0]]_vars

\* A walk passed two mystical cells and took a treasure of the shared
\* collection at each of them.
C10_Witness ==
    /\ op = "take_treasures"
    /\ Cardinality(HollowCellsOfKind("mystical") \cap Items(walked)) = 2
    /\ Cardinality(FromMystical(treasures_taken.list)) = 2


\* Total weight of a sequence of treasures.
RECURSIVE TotalWeight(_)
TotalWeight(s) == IF s = <<>> THEN 0 ELSE s[1].weight + TotalWeight(Tail(s))

\* What is left of an initial capacity c once the first i treasures of a
\* list have been taken.
Remaining(c, taken, i) == c - TotalWeight(SubSeq(taken, 1, i))

\* C11: in take_treasures each taken treasure weighs no more than the
\* capacity remaining when it is taken, the remaining capacity is never
\* negative, and the returned treasures together weigh no more than the
\* initial backpack_capacity.
C11_CapacityRespected ==
    op = "take_treasures" =>
        LET taken == treasures_taken.list
        IN  /\ \A i \in 1..Len(taken) :
                  /\ taken[i].weight <= Remaining(capacity, taken, i - 1)
                  /\ Remaining(capacity, taken, i) >= 0
            /\ TotalWeight(taken) <= capacity

\* A walk took a treasure at each of two hollow cells and used up the whole
\* capacity, the second cell's hollow keeping a treasure.
C11_Witness ==
    /\ op = "take_treasures"
    /\ Len(treasures_taken.list) = 2
    /\ TotalWeight(treasures_taken.list) = capacity
    /\ grid[walked[Len(walked)]].tile = HOLLOW
    /\ HollowLen(hollows[grid[walked[Len(walked)]].hollow]) > 0

\* The indices of the path cells that hold a hollow.
HollowSteps(path_) == {k \in 1..Len(path_) : grid[path_[k]].tile = HOLLOW}

\* s1 is an initial part of s2.
IsPrefix(s1, s2) == Len(s1) <= Len(s2) /\ SubSeq(s2, 1, Len(s1)) = s1

RECURSIVE Height(_)
Height(current) ==
    IF ~IsNode(current) THEN 0
    ELSE 1 + (IF Height(current.left) >= Height(current.right)
              THEN Height(current.left) ELSE Height(current.right))

RECURSIVE Pow2(_)
Pow2(n) == IF n <= 0 THEN 1 ELSE 2 * Pow2(n - 1)

\* The keys of a list of (key, item) entries are pairwise different.
DistinctKeys(entries) ==
    \A i, j \in 1..Len(entries) :
        i # j => KeyLT(entries[i].key, entries[j].key) \/ KeyLT(entries[j].key, entries[i].key)

\* The sorted (key, item) entries SpookyHollow.restructure_hollow hands to
\* the midpoint build.
SortedEntries(treasures) ==
    sort_elements([i \in 1..Len(treasures) |->
                     [key |-> Key(-treasures[i].value, treasures[i].weight),
                      item |-> treasures[i]]])

\* C13: the midpoint build over n >= 1 sorted entries with distinct keys
\* yields a tree of n nodes whose height h, in nodes, is at most
\* ceil(log2(n + 1)), that is 2^(h - 1) <= n; an empty range (start > end)
\* inserts nothing.
C13_HeightBound ==
    \A h \in DOMAIN hollows :
        (op = "restructure_hollow" /\ target = h /\ IsSpooky(h)) =>
            LET sorted == SortedEntries(generated[h])
                n == Len(sorted)
                tree == hollows[h].treasures
            IN  DistinctKeys(sorted) =>
                  /\ tree.length = n
                  /\ Pow2(Height(tree.root) - 1) <= n
                  /\ \A start, end \in 0..n :
                        start > end => build_tree_aux(tree, sorted, start, end) = tree

\* A tree built over six treasures of distinct ratios: height three.
C13_Witness ==
    /\ op = "restructure_hollow"
    /\ IsSpooky(0)
    /\ DistinctKeys(SortedEntries(generated[0]))
    /\ Len(generated[0]) = 6
    /\ Height(hollows[0].treasures.root) = 3


\* C14: the heap of a mystical hollow is a max-heap after restructure_hollow
\* and after every get_optimal_treasure call: the array is dense, its length
\* is the item count (n after restructure_hollow on n treasures), every entry
\* is keyed by its treasure's ratio, and no entry has a larger ratio than its
\* parent.
C14_MaxHeap ==
    \A h \in DOMAIN hollows :
        IsMystical(h) =>
            LET heap == hollows[h].treasures
                a == heap.the_array
            IN  /\ DOMAIN a = 1..heap.length
                /\ op = "init" => heap.length = Len(generated[h])
                /\ \A k \in 1..heap.length :
                      /\ a[k].key = Key(a[k].item.value, a[k].item.weight)
                      /\ k > 1 => /\ KeyLE(a[k].key, a[k \div 2].key)
                                  /\ RatioLE(a[k].item, a[k \div 2].item)

\* A call on a mystical hollow of three treasures returned the one of least
\* ratio after extracting and adding back the two others, both too heavy.
C14_Witness ==
    /\ op = "get_optimal_treasure"
    /\ IsMystical(target)
    /\ Len(generated[target]) = 3
    /\ HollowLen(hollows[target]) = 2
    /\ optimal_treasure # None
    /\ \A k \in 1..2 :
          LET u == hollows[target].treasures.the_array[k].item
          IN  u.weight > capacity /\ ~RatioLE(u, optimal_treasure)


\* C15: a mystical and a spooky hollow built from the same treasures of
\* pairwise distinct ratios and asked with the same capacities answer alike:
\* whenever the spooky hollow has answered the capacity the mystical hollow
\* was just asked with, it returns the same treasure (or None as well) and
\* both hold the same multiset of treasures.
C15_Interchangeable ==
    [][(op' = "get_optimal_treasure" /\ target' = 1) =>
          /\ capacity' = capacity
          /\ optimal_treasure' = optimal_treasure
          /\ SameBag(ItemsOf(Contents(hollows'[1])), ItemsOf(Contents(hollows'[0])))]_vars

\* Both hollows, built over three treasures, have answered two rounds: a
\* treasure in the first, None in the second, one treasure lighter each.
C15_Witness ==
    /\ op = "get_optimal_treasure" /\ target = 1
    /\ Len(generated[0]) = 3
    /\ HollowLen(hollows[0]) = 2 /\ HollowLen(hollows[1]) = 2
    /\ optimal_treasure = None
    /\ capacity > 0


\* The keys held in a subtree.
RECURSIVE KeysOf(_)
KeysOf(current) ==
    IF ~IsNode(current) THEN {}
    ELSE KeysOf(current.left) \cup {current.key} \cup KeysOf(current.right)

\* The ordering invariant of a search tree: at every node the keys of the
\* left subtree are <= the node's key <= the keys of the right subtree.
RECURSIVE IsSearchTree(_)
IsSearchTree(current) ==
    ~IsNode(current) \/
        /\ \A k \in KeysOf(current.left) : KeyLE(k, current.key)
        /\ \A k \in KeysOf(current.right) : KeyLE(current.key, k)
        /\ IsSearchTree(current.left)
        /\ IsSearchTree(current.right)

\* C16: the tree of a spooky hollow keeps the search-tree ordering after the
\* midpoint build and after every get_optimal_treasure call: every node is
\* keyed by its treasure's negated ratio, left keys <= node key <= right
\* keys at every node, the length is the node count, and the in-order walk
\* is in non-increasing ratio order.
C16_SearchTreeOrder ==
    \A h \in DOMAIN hollows :
        IsSpooky(h) =>
            LET tree == hollows[h].treasures
                walk == InOrder(tree.root)
            IN  /\ IsSearchTree(tree.root)
                /\ tree.length = Len(walk)
                /\ \A i \in 1..Len(walk) :
                      walk[i].key = Key(-walk[i].item.value, walk[i].item.weight)
                /\ \A i \in 1..(Len(walk) - 1) : RatioLE(walk[i + 1].item, walk[i].item)

\* A call deleted the root of a three-node tree, a node with two children:
\* the treasure of largest ratio was too heavy and the root's treasure fitted.
C16_Witness ==
    /\ op = "get_optimal_treasure"
    /\ IsSpooky(target)
    /\ Len(generated[target]) = 3
    /\ HollowLen(hollows[target]) = 2
    /\ LET built == SpookyRestructure(generated[target])
       IN  /\ IsNode(built.root.left) /\ IsNode(built.root.right)
           /\ built.root.item = optimal_treasure
           /\ built.root.left.item.weight > capacity


\* The Maze object load_maze_from_file builds from a file, as find_path_aux
\* reads it, with its start position.
MazeOf(file, nr, nc) ==
    LET ends == TilePositions(file, nr, nc, EXIT)
    IN  [grid |-> create_grid(nr, nc, CHOOSE p \in DOMAIN file : file[p] = START_POSITION,
                              TilePositions(file, nr, nc, WALL),
                              HollowObjects(file, nr, nc).at, ends),
         rows |-> nr, cols |-> nc, end_positions |-> ends, expanded |-> <<>>,
         start_position |-> CHOOSE p \in DOMAIN file : file[p] = START_POSITION]

\* The cells of a grid g reachable from the cells of S through cells that
\* are not walls.
RECURSIVE ReachIn(_, _)
ReachIn(g, S) ==
    LET N == S \cup {q \in DOMAIN g : g[q].tile # WALL /\ \E p \in S : Adjacent(p, q)}
    IN  IF N = S THEN S ELSE ReachIn(g, N)

\* C17 as stated: there is a maze in which an exit is reachable from the
\* start through in-bounds non-wall cells and find_way_out on the fresh maze
\* returns None (a statement about all mazes, the same in every state).
C17_FalseNoPath ==
    searches >= 0 =>
        \E s \in MazeShapes : \E file \in MazeFiles(s[1], s[2]) :
            LET m == MazeOf(file, s[1], s[2])
            IN  /\ \E e \in ReachIn(m.grid, {m.start_position}) :
                      e \in Items(m.end_positions)
                /\ ~find_path_aux(m, m.start_position, <<>>).result.found

\* C17 amended: find_way_out on the fresh maze returns a path whenever an
\* exit is reachable from the start through in-bounds non-wall cells; a cell
\* left marked after backtracking never hides a route.
C17_SearchComplete ==
    (FreshSearchDone /\ ExitReachable) => way_out.found

\* The search found an exit after backtracking out of a cell that two open
\* cells lead to, one of them on the returned path.
C17_Witness ==
    /\ FreshSearchDone /\ ExitReachable /\ way_out.found
    /\ \E c \in DOMAIN grid :
          /\ grid[c].visited /\ c \notin Items(way_out.cells)
          /\ \E p \in Items(way_out.cells) : Adjacent(p, c) /\ p # start_position
          /\ \E q \in DOMAIN grid :
                q \notin Items(way_out.cells) /\ grid[q].visited /\ Adjacent(q, c)


\* C18: in one find_way_out run no cell is marked visited and appended to
\* the path twice: every expanded cell was unvisited before the run and is
\* visited after it, also when backtracking removed it from the path, the
\* cells visited after the run are those visited before it and the expanded
\* ones, no wall and no exit cell is ever marked visited, the cells left on
\* the path are expanded cells or the exit reached, and the run makes at
\* most rows * cols expansions.
C18_ExpandedOnce ==
    [][op' = "find_way_out" =>
          /\ \A i, j \in 1..Len(expanded') : expanded'[i] = expanded'[j] => i = j
          /\ \A i \in 1..Len(expanded') :
                /\ ~grid[expanded'[i]].visited
                /\ grid'[expanded'[i]].visited
          /\ \A p \in DOMAIN grid :
                /\ grid'[p].visited <=> (grid[p].visited \/ p \in Items(expanded'))
                /\ grid'[p].visited => (grid[p].tile # WALL /\ ~IsExit(p))
          /\ \A i \in 1..Len(path') : path'[i] \in Items(expanded') \/ IsExit(path'[i])
          /\ Len(expanded') <= rows * cols]_vars

\* A first search expanded at least four cells of a maze with a wall and
\* backtracked out of one of them before it reached an exit.
C18_Witness ==
    /\ FreshSearchDone /\ way_out.found
    /\ Len(expanded) >= 4
    /\ \E i \in 1..Len(expanded) :
          expanded[i] \notin Items(way_out.cells) /\ grid[expanded[i]].visited
    /\ \E p \in DOMAIN grid : grid[p].tile = WALL


\* The moves of the reference search, in its order: up, down, left, right.
RefMoves == <<<<-1, 0>>, <<1, 0>>, <<0, -1>>, <<0, 1>>>>

\* The reference depth-first search, run on an explicit stack of frames
\* [cell, next move to try] with the set of cells seen so far: the first
\* untried move of the top frame is taken; a move off the grid, into a wall
\* or to a seen cell is skipped, a move to an exit ends the search with the
\* cells of the stack and the exit, any other move pushes the new cell; a
\* frame with no move left is popped.
RECURSIVE RefDFS(_, _, _, _)
RefDFS(g, ends, stack, seen) ==
    IF stack = <<>> THEN NoPath
    ELSE LET top == stack[Len(stack)]
         IN  IF top.next > Len(RefMoves)
             THEN RefDFS(g, ends, SubSeq(stack, 1, Len(stack) - 1), seen)
             ELSE LET n == <<top.cell[1] + RefMoves[top.next][1],
                             top.cell[2] + RefMoves[top.next][2]>>
                      tried == [stack EXCEPT ![Len(stack)].next = top.next + 1]
                  IN  IF n \notin DOMAIN g \/ g[n].tile = WALL
                      THEN RefDFS(g, ends, tried, seen)
                      ELSE IF n \in ends
                      THEN FoundPath([i \in 1..(Len(stack) + 1) |->
                                        IF i <= Len(stack) THEN stack[i].cell ELSE n])
                      ELSE IF n \in seen
                      THEN RefDFS(g, ends, tried, seen)
                      ELSE RefDFS(g, ends, Append(tried, [cell |-> n, next |-> 1]),
                                  seen \cup {n})

RefSearch(g, ends, start) ==
    IF start \in ends THEN FoundPath(<<start>>)
    ELSE RefDFS(g, ends, <<[cell |-> start, next |-> 1]>>, {start})

\* The grid is the 3x3 example: no walls, start (0, 0), exit (2, 2).
IsExampleMaze ==
    /\ rows = 3 /\ cols = 3
    /\ start_position = <<0, 0>>
    /\ end_positions = <<<<2, 2>>>>
    /\ \A p \in DOMAIN grid : grid[p].tile # WALL

\* C19: find_way_out on the fresh maze returns exactly what the reference
\* depth-first search returns, which tries the neighbours up, down, left,
\* right in that order and stops at the first exit reached; on the 3x3
\* example it returns a path of at most 9 cells from (0, 0) to (2, 2) in
\* single steps.
C19_ReferenceSearch ==
    FreshSearchDone =>
        /\ way_out = RefSearch(grid, Items(end_positions), start_position)
        /\ IsExampleMaze =>
              /\ way_out.found
              /\ Len(way_out.cells) <= 9
              /\ way_out.cells[1] = <<0, 0>>
              /\ way_out.cells[Len(way_out.cells)] = <<2, 2>>
              /\ \A i \in 1..(Len(way_out.cells) - 1) :
                    Adjacent(way_out.cells[i], way_out.cells[i + 1])

\* The search of the 3x3 example has returned.
C19_Witness ==
    /\ FreshSearchDone
    /\ IsExampleMaze
    /\ Len(way_out.cells) = 9

\* How often the hollows ids of a store hold the treasure t.
RECURSIVE HeldIn(_, _, _)
HeldIn(store, ids, t) ==
    IF ids = {} THEN 0
    ELSE LET h == CHOOSE x \in ids : TRUE
         IN  Count(ItemsOf(Contents(store[h])), t) + HeldIn(store, ids \ {h}, t)

\* Every treasure generated for a hollow of the maze.
AllTreasures == UNION {Items(generated[h]) : h \in DOMAIN generated}

\* C20: a walk loses no treasure: for every treasure, what all hollows hold
\* after take_treasures together with the returned list is what all hollows
\* held before it, and nothing else is returned.
C20_NoTreasureLost ==
    [][op' = "take_treasures" =>
          /\ Items(treasures_taken'.list) \subseteq AllTreasures
          /\ \A t \in AllTreasures :
                HeldIn(hollows', DOMAIN hollows, t) + Count(treasures_taken'.list, t)
                    = HeldIn(hollows, DOMAIN hollows, t)]_vars


\* C21: no get_optimal_treasure call on either kind of hollow raises: the
\* mystical hollow never takes the maximum of an empty heap, the spooky
\* hollow never deletes a key the tree does not hold, and a call that finds
\* no fitting treasure returns None with the hollow's collection unfaulted.
C21_NoFault ==
    [][\A h \in DOMAIN hollows :
          CalledOn(h) =>
              /\ ~fault'
              /\ ~hollows'[h].treasures.raised
              /\ Fitting(h, capacity') = {} => optimal_treasure' = None]_vars

\* A call on a mystical hollow of at least two treasures, all too heavy,
\* returned None: the loop extracted every entry and stopped at the length
\* check.
C21_Witness ==
    /\ op = "get_optimal_treasure"
    /\ IsMystical(target)
    /\ optimal_treasure = None
    /\ HollowLen(hollows[target]) >= 2
    /\ \A i \in 1..HollowLen(hollows[target]) :
          Contents(hollows[target])[i].item.weight > capacity
    /\ ~fault

====
